---- MODULE Spec2Model ----
(***************************************************************************)
(* A model of the india-equity-news aggregator.                            *)
(*                                                                         *)
(*   src/app.py        the polling variant: a background poller writes     *)
(*                     feed entries into an SQLite table, the page and     *)
(*                     /api/news read it.                                  *)
(*   src/api/index.py  the stateless variant: /api/news fetches, filters,  *)
(*                     deduplicates and sorts on every request.            *)
(*                                                                         *)
(* Text is modelled as sequences of one-character strings, so that         *)
(* lower(), strip(), substring tests and clean_text() are computed as the  *)
(* code computes them.  Source names are kept as strings; Spelling gives   *)
(* their characters where the code looks inside a name.                    *)
(***************************************************************************)
EXTENDS Integers, Sequences, FiniteSets, TLC

(***************************************************************************)
(* Bounds of the model.                                                    *)
(***************************************************************************)
\* Longest feed document (entries per fetch) the environment delivers.
MaxEntries == 2
\* Poll cycles the poller may start (caps the clock).
MaxCycles == 2
\* Feed entries delivered in total over a run of the polling variant.
MaxArrivals == 2
\* Feed entries delivered in total to one request of the stateless variant.
MaxApiArrivals == 3
\* Failures (a fetch that raises, a bozo document, a failed commit) in total
\* over a run of the polling variant.
MaxFaults == 1
\* Model-scale stand-in for the last epoch second whose IST rendering still
\* has a four-digit year (datetime.MAXYEAR); later instants make
\* astimezone() raise OverflowError.
MaxRenderableTs == 1000
\* Model-scale offset of the host's local time zone from UTC (time.mktime).
HostUtcOffset == 1

(***************************************************************************)
(* Strings.                                                                *)
(***************************************************************************)
UpperCase == <<"A","B","C","D","E","F","G","H","I","J","K","L","M",
               "N","O","P","Q","R","S","T","U","V","W","X","Y","Z">>
LowerCase == <<"a","b","c","d","e","f","g","h","i","j","k","l","m",
               "n","o","p","q","r","s","t","u","v","w","x","y","z">>

\* The non-breaking space U+00A0 (what &nbsp; decodes to) and a lone
\* surrogate code point, as single characters.
NBSP == "\\xa0"
SURROGATE == "\\ud800"

\* str.isspace() on the characters the model uses.
IsSpace(c) == c \in {" ", "\\n", "\\t", NBSP}

LowerChar(c) ==
    IF \E i \in 1..Len(UpperCase) : UpperCase[i] = c
    THEN LowerCase[CHOOSE i \in 1..Len(UpperCase) : UpperCase[i] = c]
    ELSE c

\* str.lower()
lower(s) == [i \in 1..Len(s) |-> LowerChar(s[i])]

\* needle in hay
Contains(hay, needle) ==
    \E i \in 0..(Len(hay) - Len(needle)) :
        SubSeq(hay, i + 1, i + Len(needle)) = needle

\* hay.startswith(prefix)
startswith(hay, prefix) ==
    /\ Len(prefix) <= Len(hay)
    /\ SubSeq(hay, 1, Len(prefix)) = prefix

\* str.strip()
RECURSIVE lstrip(_)
lstrip(s) == IF s # <<>> /\ IsSpace(Head(s)) THEN lstrip(Tail(s)) ELSE s

RECURSIVE rstrip(_)
rstrip(s) ==
    IF s # <<>> /\ IsSpace(s[Len(s)]) THEN rstrip(SubSeq(s, 1, Len(s) - 1)) ELSE s

strip(s) == rstrip(lstrip(s))

\* html.unescape, on the named references the modelled feeds use.
Entities ==
    << [ref |-> <<"&","a","m","p",";">>,     chr |-> "&"],
       [ref |-> <<"&","l","t",";">>,         chr |-> "<"],
       [ref |-> <<"&","g","t",";">>,         chr |-> ">"],
       [ref |-> <<"&","n","b","s","p",";">>, chr |-> NBSP] >>

RECURSIVE unescape(_)
unescape(s) ==
    IF s = <<>> THEN <<>>
    ELSE IF \E k \in 1..Len(Entities) : startswith(s, Entities[k].ref)
    THEN LET k == CHOOSE j \in 1..Len(Entities) : startswith(s, Entities[j].ref)
         IN  <<Entities[k].chr>> \o unescape(SubSeq(s, Len(Entities[k].ref) + 1, Len(s)))
    ELSE <<Head(s)>> \o unescape(Tail(s))

\* re.sub(r"<[^>]+>", "", text): at a "<", the match runs to the first ">"
\* after it and needs at least one character in between.
RECURSIVE StripTags(_)
StripTags(s) ==
    IF s = <<>> THEN <<>>
    ELSE IF Head(s) = "<" /\ \E j \in 2..Len(s) : s[j] = ">"
    THEN LET j == CHOOSE n \in 2..Len(s) :
                      s[n] = ">" /\ \A m \in 2..(n - 1) : s[m] # ">"
         IN  IF j >= 3
             THEN StripTags(SubSeq(s, j + 1, Len(s)))
             ELSE <<Head(s)>> \o StripTags(Tail(s))
    ELSE <<Head(s)>> \o StripTags(Tail(s))

\* " ".join(text.split())
RECURSIVE CollapseSpace(_)
CollapseSpace(s) ==
    LET t == lstrip(s)
    IN  IF t = <<>> THEN <<>>
        ELSE IF \E j \in 1..Len(t) : IsSpace(t[j])
        THEN LET j == CHOOSE n \in 1..Len(t) :
                          IsSpace(t[n]) /\ \A m \in 1..(n - 1) : ~IsSpace(t[m])
                 rest == CollapseSpace(SubSeq(t, j, Len(t)))
             IN  IF rest = <<>> THEN SubSeq(t, 1, j - 1)
                 ELSE SubSeq(t, 1, j - 1) \o <<" ">> \o rest
        ELSE t

clean_text(raw) ==
    IF raw = <<>> THEN <<>> ELSE CollapseSpace(StripTags(unescape(raw)))

(***************************************************************************)
(* Configuration.                                                          *)
(***************************************************************************)
\* src/app.py: FEEDS, by name.
FEEDS_app ==
    << "NSE Corporate Actions (Official)",
       "LiveMint Markets",
       "Economic Times Markets",
       "Google News (India equities)" >>

\* src/api/index.py: FEEDS, by name.
FEEDS_index ==
    << "NSE Financial Results",
       "NSE Announcements",
       "NSE Corporate Actions (Official)",
       "LiveMint Markets",
       "Economic Times Markets",
       "Google News (India equities)" >>

\* The characters of a configured source name.
Spelling(name) ==
    CASE
          name = "NSE Financial Results" ->
            <<"N","S","E"," ","F","i","n","a","n","c","i","a","l"," ","R","e","s","u","l","t","s">>
       [] name = "NSE Announcements" ->
            <<"N","S","E"," ","A","n","n","o","u","n","c","e","m","e","n","t","s">>
       [] name = "NSE Corporate Actions (Official)" ->
            <<"N","S","E"," ","C","o","r","p","o","r","a","t","e"," ","A","c","t","i","o","n","s"," ","(","O","f","f","i","c","i","a","l",")">>
       [] name = "LiveMint Markets" ->
            <<"L","i","v","e","M","i","n","t"," ","M","a","r","k","e","t","s">>
       [] name = "Economic Times Markets" ->
            <<"E","c","o","n","o","m","i","c"," ","T","i","m","e","s"," ","M","a","r","k","e","t","s">>
       [] name = "Google News (India equities)" ->
            <<"G","o","o","g","l","e"," ","N","e","w","s"," ","(","I","n","d","i","a"," ","e","q","u","i","t","i","e","s",")">>


\* feed.entries[:50]
EntryCap == 50
\* LIMIT 150 of the page query, LIMIT 250 of the polling /api/news query,
\* items[:150] of the stateless /api/news.
PageLimit == 150
RawApiLimit == 250
ResponseLimit == 150
\* time.sleep(POLL_SECONDS)
POLL_SECONDS == 60

INCLUDE_KEYWORDS_app ==
    << <<"n","s","e">>,
       <<"b","s","e">>,
       <<"n","i","f","t","y">>,
       <<"s","e","n","s","e","x">>,
       <<"d","i","v","i","d","e","n","d">>,
       <<"b","u","y","b","a","c","k">>,
       <<"s","p","l","i","t">>,
       <<"b","o","n","u","s">>,
       <<"r","i","g","h","t","s">>,
       <<"i","p","o">>,
       <<"r","e","s","u","l","t","s">>,
       <<"e","a","r","n","i","n","g","s">>,
       <<"s","h","a","r","e","s">>,
       <<"s","t","o","c","k">>,
       <<"e","q","u","i","t","y">> >>
EXCLUDE_KEYWORDS_app ==
    << <<"c","r","y","p","t","o">>,
       <<"b","i","t","c","o","i","n">>,
       <<"e","t","h","e","r","e","u","m">> >>
INCLUDE_KEYWORDS_index ==
    << <<"n","s","e">>,
       <<"b","s","e">>,
       <<"n","i","f","t","y">>,
       <<"s","e","n","s","e","x">>,
       <<"d","i","v","i","d","e","n","d">>,
       <<"b","u","y","b","a","c","k">>,
       <<"s","p","l","i","t">>,
       <<"b","o","n","u","s">>,
       <<"r","i","g","h","t","s"," ","i","s","s","u","e">>,
       <<"i","p","o">>,
       <<"r","e","s","u","l","t","s">>,
       <<"e","a","r","n","i","n","g","s">>,
       <<"s","h","a","r","e","s">>,
       <<"s","t","o","c","k">>,
       <<"e","q","u","i","t","y">>,
       <<"e","q","u","i","t","i","e","s">>,
       <<"g","o","l","d">>,
       <<"s","i","l","v","e","r">>,
       <<"c","o","m","m","o","d","i","t","i","e","s">> >>
EXCLUDE_KEYWORDS_index ==
    << <<"c","r","y","p","t","o">>,
       <<"b","i","t","c","o","i","n">>,
       <<"e","t","h","e","r","e","u","m">> >>

(***************************************************************************)
(* Relevance filter.                                                       *)
(***************************************************************************)
\* src/app.py: passes_filter(title)
passes_filter_app(title) ==
    LET t == lower(title)
    IN  IF \E i \in 1..Len(EXCLUDE_KEYWORDS_app) : Contains(t, EXCLUDE_KEYWORDS_app[i])
        THEN FALSE
        ELSE \E k \in 1..Len(INCLUDE_KEYWORDS_app) : Contains(t, INCLUDE_KEYWORDS_app[k])

\* src/api/index.py: passes_filter(text)
passes_filter_index(text) ==
    LET t == lower(text)
    IN  IF \E i \in 1..Len(EXCLUDE_KEYWORDS_index) : Contains(t, EXCLUDE_KEYWORDS_index[i])
        THEN FALSE
        ELSE \E k \in 1..Len(INCLUDE_KEYWORDS_index) : Contains(t, INCLUDE_KEYWORDS_index[k])

\* f"{title} {summary}"
Haystack(title, summary) == title \o <<" ">> \o summary

(***************************************************************************)
(* Timestamps.  A struct_time is [kind, utc]: kind "none" is Python's      *)
(* None, "time" a struct_time whose fields read as UTC denote epoch second *)
(* utc, "bad" a struct_time the C library refuses.  An optional integer    *)
(* is <<>> (None) or <<n>>.                                                *)
(***************************************************************************)
NoTime == [kind |-> "none", utc |-> 0]
At(n) == [kind |-> "time", utc |-> n]
BadTime == [kind |-> "bad", utc |-> 0]

\* Python truth of an optional integer: None and 0 are false.
Truthy(t) == t # <<>> /\ t[1] # 0

\* a or b
Or(a, b) == IF Truthy(a) THEN a ELSE b

\* src/app.py: to_ts(st), through time.mktime: the fields are read as the
\* host's local time.
to_ts(st) ==
    IF st.kind = "time" THEN <<st.utc - HostUtcOffset>> ELSE <<>>

\* src/api/index.py: to_ts_utc(st), through calendar.timegm.
to_ts_utc(st) ==
    IF st.kind = "time" THEN <<st.utc>> ELSE <<>>

\* Whether strftime can render ts in IST; if not, the call raises
\* OverflowError.
Renderable(ts) == ~Truthy(ts) \/ ts[1] <= MaxRenderableTs

\* fmt_ts / fmt_ts_ist: None for a false ts, else the IST wall clock to the
\* minute ("%d %b %Y, %I:%M %p IST" drops the seconds).
fmt_ts(ts) == IF ~Truthy(ts) THEN <<>> ELSE <<(ts[1] + 19800) \div 60>>

fmt_ts_ist(ts) == IF ~Truthy(ts) THEN <<>> ELSE <<(ts[1] + 19800) \div 60>>

(***************************************************************************)
(* Feed entries the environment may deliver.                               *)
(***************************************************************************)
tDividend == <<"T","a","t","a"," ","d","i","v","i","d","e","n","d">>
tBitcoin == <<"B","i","t","c","o","i","n"," ","d","i","v","i","d","e","n","d">>
tPlain == <<"B","o","a","r","d"," ","m","e","e","t","i","n","g">>
tBlank == <<" "," ">>
tMarkup == <<" ","<","b",">","I","P","O","<","/","b",">"," ","&","a","m","p",";"," ","m","o","r","e"," ">>
tRights == <<"R","i","g","h","t","s">>
tSurrogate == <<"N","S","E"," ",SURROGATE>>
sNone == <<>>
sDividend == <<"d","e","c","l","a","r","e","s"," "," ","d","i","v","i","d","e","n","d">>
sCrypto == <<"C","r","y","p","t","o"," ","r","a","l","l","y">>
sMarkup == <<"<","p",">","s","h","a","r","e","s","&","n","b","s","p",";","u","p","<","/","p",">">>
sIssue == <<"i","s","s","u","e"," ","o","p","e","n","s">>
u1 == <<"u","1">>
u2 == <<"u","2">>

\* A parsed entry: e.get(...) of each key, <<>> for a missing one.
Entry(title, link, summary, description, published, updated) ==
    [title |-> title, link |-> link, summary |-> summary,
     description |-> description,
     published_parsed |-> published, updated_parsed |-> updated]

SampleTitles == {tDividend, tBitcoin, tPlain, tBlank, tMarkup, tRights, tSurrogate}
SampleSummaries == {sNone, sDividend, sCrypto, sMarkup, sIssue}

(***************************************************************************)
(* State.                                                                  *)
(***************************************************************************)
VARIABLES
    \* ---- polling variant (src/app.py) ----
    store,          \* committed rows of table items in news.db
    txn,            \* the table as fetch_once's connection sees it: the
                    \* committed rows plus its own uncommitted inserts
    pc,             \* the poller thread: "fetch", "loop", "commit", "sleep"
    idx,            \* position of the for loop in FEEDS
    now,            \* fetch_once's local now
    inserted_total, \* fetch_once's local inserted_total
    per_source,     \* fetch_once's local per_source
    STATUS,         \* the module-level STATUS dict
    clock,          \* int(time.time())
    cycles,         \* poll cycles started so far
    arrivals,       \* feed entries delivered so far
    faults,         \* failures injected so far
    raisedInCycle,  \* history: a source raised during the running cycle
    lastCycle,      \* history: how the last cycle ended: "none", "completed", "escaped"
    errBefore,      \* history: STATUS.last_error when the running cycle began
    ignored,        \* history: the rows INSERT OR IGNORE dropped so far
    view,           \* the answer a read request is returning, if one just ran
    \* ---- stateless variant (src/api/index.py) ----
    apiPc,          \* the request: "idle", "loop", "done", "failed"
    apiArgs,        \* q and src of the request
    apiIdx,         \* position of the for loop in FEEDS
    items,          \* api_news's local items
    seen,           \* api_news's local seen
    apiArrivals,    \* feed entries delivered to the request so far
    dups,           \* history: the items skipped because their key was seen
    response,       \* the response returned, or the error that escaped
    \* ---- the ingest decision on one entry ----
    probe           \* a source, an entry and both variants' decisions on it

pollVars == <<store, txn, pc, idx, now, inserted_total, per_source, STATUS,
              clock, cycles, arrivals, faults, raisedInCycle, lastCycle, errBefore,
              ignored, view>>
apiVars == <<apiPc, apiArgs, apiIdx, items, seen, apiArrivals, dups, response>>
vars == <<pollVars, apiVars, probe>>

(***************************************************************************)
(* Polling variant: the store.                                             *)
(***************************************************************************)
NSE_OFFICIAL == "NSE Corporate Actions (Official)"

\* UNIQUE(link, source): the constraint on the wrong column.
Conflicts_link(table, row) ==
    \E r \in table : r.link = row.link /\ r.source = row.source

\* UNIQUE(title, source)
Conflicts(table, row) ==
    \E r \in table : r.title = row.title /\ r.source = row.source

\* INSERT OR REPLACE: what the statement would do without OR IGNORE.
insert_or_replace(table, row) ==
    {r \in table : ~(r.title = row.title /\ r.source = row.source)} \cup {row}

\* INSERT OR IGNORE INTO items ... under UNIQUE(title, source)
insert_or_ignore(table, row) ==
    IF Conflicts(table, row) THEN table ELSE table \cup {row}

\* sqlite3 binds str parameters as UTF-8; a lone surrogate makes execute()
\* raise UnicodeEncodeError.
Storable(row) ==
    /\ \A i \in 1..Len(row.title) : row.title[i] # SURROGATE
    /\ \A i \in 1..Len(row.link) : row.link[i] # SURROGATE
    /\ \A i \in 1..Len(row.summary) : row.summary[i] # SURROGATE

\* src/app.py: clean_text(raw)
clean_text_app(raw) ==
    IF raw = <<>> THEN <<>> ELSE CollapseSpace(StripTags(unescape(raw)))

\* entries[:50]
FirstEntries(entries) ==
    SubSeq(entries, 1, IF Len(entries) < EntryCap THEN Len(entries) ELSE EntryCap)

\* The ingest decision of fetch_once on one entry of one source.
Accepts_app(source, e) ==
    /\ strip(e.title) # <<>>
    /\ (source # NSE_OFFICIAL => passes_filter_app(strip(e.title)))

\* id INTEGER PRIMARY KEY AUTOINCREMENT
NextId(table) ==
    IF table = {} THEN 1
    ELSE 1 + (CHOOSE n \in {r.id : r \in table} : \A r \in table : r.id <= n)

\* The row fetch_once builds from an accepted entry.
Row_app(source, e, t, id) ==
    [id |-> id,
     title |-> strip(e.title),
     link |-> strip(e.link),
     source |-> source,
     summary |-> clean_text_app(IF e.summary # <<>> THEN e.summary ELSE e.description),
     published_ts |-> Or(to_ts(e.published_parsed), to_ts(e.updated_parsed)),
     fetched_ts |-> t]

\* The body of "for e in feed.entries[:50]": the table and the count of
\* inserted rows after the loop, the rows dropped on a conflict, and
\* whether execute() raised on the way.
RECURSIVE IngestEntries(_, _, _, _, _, _)
IngestEntries(source, entries, table, inserted, t, dropped) ==
    IF entries = <<>>
    THEN [table |-> table, inserted |-> inserted, dropped |-> dropped, raised |-> FALSE]
    ELSE LET e == Head(entries)
         IN  IF ~Accepts_app(source, e)
             THEN IngestEntries(source, Tail(entries), table, inserted, t, dropped)
             ELSE LET row == Row_app(source, e, t, NextId(table))
                      after == insert_or_ignore(table, row)
                      rowcount == IF after = table THEN 0 ELSE 1
                  IN  IF ~Storable(row)
                      THEN [table |-> table, inserted |-> inserted,
                            dropped |-> dropped, raised |-> TRUE]
                      ELSE IngestEntries(source, Tail(entries), after,
                                         IF rowcount = 1 THEN inserted + 1 ELSE inserted,
                                         t,
                                         IF rowcount = 1 THEN dropped
                                         ELSE dropped \cup {row})

\* What the connections of the read requests see of the table while
\* fetch_once's transaction is open: sqlite3.connect() leaves the connection
\* in its default mode, which opens a transaction before the first INSERT
\* and keeps it open until con.commit().
Visible_autocommit(committed, working) == working

Visible(committed, working) == committed

(***************************************************************************)
(* Polling variant: what a fetch may deliver.                              *)
(***************************************************************************)
\* Sequences over S of length at most n.
RECURSIVE SeqsUpTo(_, _)
SeqsUpTo(S, n) ==
    IF n = 0 THEN {<<>>}
    ELSE LET shorter == SeqsUpTo(S, n - 1)
         IN  shorter \cup {Append(s, x) : s \in {t \in shorter : Len(t) = n - 1}, x \in S}

Min(a, b) == IF a < b THEN a ELSE b

PollPool ==
    { Entry(tDividend, u1, sNone, <<>>, At(90), NoTime),
      Entry(tDividend, u2, sMarkup, <<>>, At(130), NoTime),
      Entry(tPlain, u1, <<>>, sDividend, NoTime, NoTime),
      Entry(tSurrogate, u2, sNone, <<>>, NoTime, At(90)),
      Entry(tBlank, u1, sDividend, <<>>, BadTime, NoTime) }

\* feedparser.parse(url, ...): it raises, or returns a document flagged
\* bozo, or returns a well-formed document with its entries.
FetchResults(pool, room, mayFail) ==
    { f \in { [kind |-> "raise", exc |-> "RemoteDisconnected", entries |-> <<>>],
              [kind |-> "bozo", exc |-> "SAXParseException", entries |-> <<>>] } :
        mayFail }
    \cup { [kind |-> "feed", exc |-> "", entries |-> es] :
              es \in SeqsUpTo(pool, Min(MaxEntries, room)) }

Outcome(kind, n, exc) == [kind |-> kind, n |-> n, exc |-> exc]

NoError == <<>>
NoNewItems == <<"No new items inserted (may be empty feeds or blocked requests).">>

\* The first instant the poller may run at.
StartClock == 100

\* No read request is returning.
NoView == [surface |-> "none", rows |-> <<>>, shown |-> <<>>, failed |-> FALSE,
           q |-> <<>>, src |-> <<>>]

(***************************************************************************)
(* Polling variant: the poller thread.                                     *)
(***************************************************************************)
\* fetch_once, lines 115-120: connect and set the locals.
BeginCycle ==
    /\ pc = "fetch"
    /\ cycles < MaxCycles
    /\ pc' = "loop"
    /\ cycles' = cycles + 1
    /\ txn' = store
    /\ now' = clock
    /\ inserted_total' = 0
    /\ per_source' = <<>>
    /\ idx' = 1
    /\ raisedInCycle' = FALSE
    /\ errBefore' = STATUS.last_error
    /\ view' = NoView
    /\ UNCHANGED <<store, STATUS, clock, arrivals, faults, lastCycle, ignored>>
    /\ UNCHANGED <<apiVars, probe>>

\* per_source[source] = outcome
SetOutcome(map, source, outcome) ==
    [s \in DOMAIN map \cup {source} |-> IF s = source THEN outcome ELSE map[s]]

\* fetch_once, lines 122-160: one pass of "for source, url in FEEDS".
FetchSource ==
    /\ pc = "loop"
    /\ idx <= Len(FEEDS_app)
    /\ \E f \in FetchResults(PollPool, MaxArrivals - arrivals, faults < MaxFaults) :
         LET source == FEEDS_app[idx]
             r == IngestEntries(source, FirstEntries(f.entries), txn, 0, now, {})
         IN  /\ arrivals' = arrivals + Len(f.entries)
             /\ ignored' = IF f.kind = "feed" THEN ignored \cup r.dropped ELSE ignored
             /\ store' = IF f.kind = "feed" THEN Visible(store, r.table) ELSE store
             /\ faults' = IF f.kind = "feed" THEN faults ELSE faults + 1
             /\ CASE f.kind = "raise" ->
                       /\ per_source' = SetOutcome(per_source, source, Outcome("error", 0, f.exc))
                       /\ STATUS' = [STATUS EXCEPT !.last_error = <<source, f.exc>>]
                       /\ raisedInCycle' = TRUE
                       /\ UNCHANGED <<txn, inserted_total>>
                  [] f.kind = "bozo" ->
                       /\ per_source' = SetOutcome(per_source, source, Outcome("bozo", 0, f.exc))
                       /\ UNCHANGED <<txn, inserted_total, STATUS, raisedInCycle>>
                  [] f.kind = "feed" /\ r.raised ->
                       /\ txn' = r.table
                       /\ inserted_total' = inserted_total + r.inserted
                       /\ per_source' = SetOutcome(per_source, source,
                                                   Outcome("error", 0, "UnicodeEncodeError"))
                       /\ STATUS' = [STATUS EXCEPT !.last_error = <<source, "UnicodeEncodeError">>]
                       /\ raisedInCycle' = TRUE
                  [] f.kind = "feed" /\ ~r.raised ->
                       /\ txn' = r.table
                       /\ inserted_total' = inserted_total + r.inserted
                       /\ per_source' = SetOutcome(per_source, source, Outcome("ok", r.inserted, ""))
                       /\ UNCHANGED <<STATUS, raisedInCycle>>
    /\ idx' = idx + 1
    /\ pc' = IF idx = Len(FEEDS_app) THEN "commit" ELSE "loop"
    /\ view' = NoView
    /\ UNCHANGED <<now, clock, cycles, lastCycle, errBefore>>
    /\ UNCHANGED <<apiVars, probe>>

\* fetch_once, lines 162-168: commit, close, publish the status.
FinishCycle ==
    /\ pc = "commit"
    /\ store' = txn
    /\ txn' = {}
    /\ STATUS' = [last_run |-> fmt_ts(<<now>>),
                  per_source |-> per_source,
                  last_error |-> IF inserted_total = 0 /\ STATUS.last_error = NoError
                                 THEN NoNewItems
                                 ELSE STATUS.last_error]
    /\ lastCycle' = "completed"
    /\ pc' = "sleep"
    /\ view' = NoView
    /\ UNCHANGED <<idx, now, inserted_total, per_source, clock, cycles, arrivals,
                   faults, raisedInCycle, errBefore, ignored>>
    /\ UNCHANGED <<apiVars, probe>>

\* poller, lines 174-175, as a thread without the handler: the exception
\* ends it.
PollerExcept_unhandled(ex) ==
    [pc |-> "dead", last_error |-> STATUS.last_error]

\* poller, lines 174-175: except Exception as ex.
PollerExcept(ex) ==
    [pc |-> "sleep", last_error |-> <<"poller", ex>>]

\* con.commit() raises (the database is locked, the disk is full): the
\* exception leaves fetch_once, the connection is dropped with its
\* transaction uncommitted, and the poller's handler runs.
CommitFails ==
    /\ pc = "commit"
    /\ faults < MaxFaults
    /\ faults' = faults + 1
    /\ txn' = {}
    /\ LET h == PollerExcept("OperationalError")
       IN  /\ pc' = h.pc
           /\ STATUS' = [STATUS EXCEPT !.last_error = h.last_error]
    /\ lastCycle' = "escaped"
    /\ view' = NoView
    /\ UNCHANGED <<store, idx, now, inserted_total, per_source, clock, cycles,
                   arrivals, raisedInCycle, errBefore, ignored>>
    /\ UNCHANGED <<apiVars, probe>>

\* poller, line 176: time.sleep(POLL_SECONDS), then the loop goes round.
Sleep ==
    /\ pc = "sleep"
    /\ clock' = clock + POLL_SECONDS
    /\ pc' = "fetch"
    /\ view' = NoView
    /\ UNCHANGED <<store, txn, idx, now, inserted_total, per_source, STATUS, cycles,
                   arrivals, faults, raisedInCycle, lastCycle, errBefore, ignored>>
    /\ UNCHANGED <<apiVars, probe>>

(***************************************************************************)
(* Polling variant: the read requests.  Each opens its own connection and  *)
(* so reads the committed rows.                                            *)
(***************************************************************************)
\* COALESCE(published_ts, fetched_ts)
Coalesce(row) == IF row.published_ts # <<>> THEN row.published_ts[1] ELSE row.fetched_ts

\* ORDER BY COALESCE(published_ts, fetched_ts) DESC: every order of the
\* rows with the keys descending (SQLite leaves the order of ties open).
RECURSIVE OrderedDesc(_)
OrderedDesc(rows) ==
    IF rows = {} THEN {<<>>}
    ELSE UNION { { <<r>> \o rest : rest \in OrderedDesc(rows \ {r}) } :
                 r \in {x \in rows : \A y \in rows : Coalesce(y) <= Coalesce(x)} }

\* LIMIT n
Limit(rows, n) == SubSeq(rows, 1, Min(Len(rows), n))

\* The WHERE clause of the page query.  q holds no LIKE wildcard.
Matches(row, q, src) ==
    /\ q # <<>> => (Contains(lower(row.title), q) \/ Contains(lower(row.summary), q))
    /\ src # <<>> => Spelling(row.source) = src

\* r[4] or r[5]
ShownTs(row) == Or(row.published_ts, <<row.fetched_ts>>)

\* request.args of the page requests the model issues.
PageArgs ==
    { [q |-> <<>>, src |-> <<>>],
      [q |-> <<" ","D","i","v","i","d","e","n","d">>, src |-> <<" ">>],
      [q |-> <<>>, src |-> Spelling(NSE_OFFICIAL) \o <<" ">>] }

\* home(): the page, lines 253-292.
ReadHome ==
    /\ \E args \in PageArgs :
         LET q == lower(strip(args.q))
             src == strip(args.src)
         IN  \E rows \in OrderedDesc({r \in store : Matches(r, q, src)}) :
               LET got == Limit(rows, PageLimit)
                   bad == \E i \in 1..Len(got) : ~Renderable(ShownTs(got[i]))
               IN  view' = [surface |-> "page",
                            rows |-> got,
                            shown |-> IF bad THEN <<>>
                                      ELSE [i \in 1..Len(got) |->
                                              [title |-> got[i].title,
                                               link |-> got[i].link,
                                               source |-> got[i].source,
                                               summary |-> strip(got[i].summary),
                                               published |-> fmt_ts(ShownTs(got[i]))]],
                            failed |-> bad,
                            q |-> q, src |-> src]
    /\ UNCHANGED <<store, txn, pc, idx, now, inserted_total, per_source, STATUS,
                   clock, cycles, arrivals, faults, raisedInCycle, lastCycle, errBefore,
                   ignored>>
    /\ UNCHANGED <<apiVars, probe>>

\* api_news() of src/app.py, lines 295-309.
ReadApi ==
    /\ \E rows \in OrderedDesc(store) :
         LET got == Limit(rows, RawApiLimit)
         IN  view' = [surface |-> "api",
                      rows |-> got,
                      shown |-> [i \in 1..Len(got) |->
                                   [title |-> got[i].title,
                                    link |-> got[i].link,
                                    source |-> got[i].source,
                                    summary |-> got[i].summary,
                                    published_ts |-> got[i].published_ts,
                                    fetched_ts |-> got[i].fetched_ts]],
                      failed |-> FALSE,
                      q |-> <<>>, src |-> <<>>]
    /\ UNCHANGED <<store, txn, pc, idx, now, inserted_total, per_source, STATUS,
                   clock, cycles, arrivals, faults, raisedInCycle, lastCycle, errBefore,
                   ignored>>
    /\ UNCHANGED <<apiVars, probe>>

(***************************************************************************)
(* Stateless variant (src/api/index.py): GET /api/news.                    *)
(***************************************************************************)
NSE_PREFIX == <<"N","S","E"," ">>

ApiPool ==
    { Entry(tDividend, u1, sNone, <<>>, At(90), NoTime),
      Entry(tDividend, u2, sNone, <<>>, At(130), NoTime),
      Entry(tPlain, <<>>, <<>>, sDividend, NoTime, NoTime),
      Entry(tMarkup, u1, sCrypto, <<>>, NoTime, At(-5)),
      Entry(tRights, <<>>, sIssue, <<>>, At(2000), NoTime) }

\* fetch_feed(url): None for a transport failure, a non-2xx status, a bozo
\* document or any exception; else the parsed feed.
FeedResults(pool, room) ==
    { [ok |-> FALSE, entries |-> <<>>] }
    \cup { [ok |-> TRUE, entries |-> es] : es \in SeqsUpTo(pool, Min(MaxEntries, room)) }

\* request.args of the requests the model issues.
ApiArgs ==
    { [q |-> <<>>, src |-> <<>>],
      [q |-> <<"D","i","v","i","d","e","n","d"," ">>, src |-> <<" ">>],
      [q |-> <<>>, src |-> <<" ">> \o Spelling("LiveMint Markets")] }

\* The title and summary api_news works with.
Title_index(e) == clean_text(strip(e.title))
Summary_index(e) == clean_text(IF e.summary # <<>> THEN e.summary ELSE e.description)

\* The ingest decision of api_news on one entry of one source, before the
\* user's query and the dedup.
Accepts_index(source_name, e) ==
    /\ Title_index(e) # <<>>
    /\ (~startswith(Spelling(source_name), NSE_PREFIX)
          => passes_filter_index(Haystack(Title_index(e), Summary_index(e))))

\* if q: hay = f"{title} {summary}".lower(); q in hay
MatchesQuery(q, e) ==
    q # <<>> => Contains(lower(Haystack(Title_index(e), Summary_index(e))), q)

pub_ts_index(e) == Or(to_ts_utc(e.published_parsed), to_ts_utc(e.updated_parsed))

\* key = (title, source_name): the dedup key of the polling variant.
DedupKey_title(source_name, e) == <<Title_index(e), source_name>>

\* key = (link or title, source_name)
DedupKey(source_name, e) ==
    <<IF strip(e.link) # <<>> THEN strip(e.link) ELSE Title_index(e), source_name>>

Item_index(source_name, e) ==
    [title |-> Title_index(e),
     link |-> strip(e.link),
     source |-> source_name,
     summary |-> Summary_index(e),
     published |-> fmt_ts_ist(pub_ts_index(e)),
     published_ts |-> pub_ts_index(e)]

\* The body of "for e in feed.entries[:50]": items and seen after the loop,
\* the items skipped as seen, and whether fmt_ts_ist raised on the way.
RECURSIVE CollectEntries(_, _, _, _, _, _)
CollectEntries(source_name, entries, q, its, sn, skipped) ==
    IF entries = <<>>
    THEN [items |-> its, seen |-> sn, skipped |-> skipped, raised |-> FALSE]
    ELSE LET e == Head(entries)
             key == DedupKey(source_name, e)
         IN  IF ~Accepts_index(source_name, e) \/ ~MatchesQuery(q, e)
             THEN CollectEntries(source_name, Tail(entries), q, its, sn, skipped)
             ELSE IF key \in sn
             THEN CollectEntries(source_name, Tail(entries), q, its, sn,
                                 Append(skipped, Item_index(source_name, e)))
             ELSE IF ~Renderable(pub_ts_index(e))
             THEN [items |-> its, seen |-> sn \cup {key}, skipped |-> skipped,
                   raised |-> TRUE]
             ELSE CollectEntries(source_name, Tail(entries), q,
                                 Append(its, Item_index(source_name, e)),
                                 sn \cup {key}, skipped)

\* api_news, lines 169-173.
ApiStart ==
    /\ apiPc = "idle"
    /\ \E args \in ApiArgs :
         apiArgs' = [q |-> lower(strip(args.q)), src |-> strip(args.src)]
    /\ items' = <<>>
    /\ seen' = {}
    /\ apiIdx' = 1
    /\ apiPc' = "loop"
    /\ dups' = <<>>
    /\ UNCHANGED <<apiArrivals, response>>
    /\ UNCHANGED <<pollVars, probe>>

\* api_news, lines 175-219: one pass of "for source_name, url in FEEDS".
ApiSource ==
    /\ apiPc = "loop"
    /\ apiIdx <= Len(FEEDS_index)
    /\ LET source_name == FEEDS_index[apiIdx]
       IN  IF apiArgs.src # <<>> /\ apiArgs.src # Spelling(source_name)
           THEN /\ apiPc' = "loop"
                /\ UNCHANGED <<items, seen, apiArrivals, dups, response>>
           ELSE \E feed \in FeedResults(ApiPool, MaxApiArrivals - apiArrivals) :
                  LET r == CollectEntries(source_name, FirstEntries(feed.entries),
                                          apiArgs.q, items, seen, dups)
                  IN  /\ apiArrivals' = apiArrivals + Len(feed.entries)
                      /\ items' = r.items
                      /\ seen' = r.seen
                      /\ dups' = r.skipped
                      /\ apiPc' = IF r.raised THEN "failed" ELSE "loop"
                      /\ response' = IF r.raised
                                     THEN [status |-> 500, error |-> "OverflowError",
                                           count |-> 0, items |-> <<>>,
                                           generated_at |-> <<>>]
                                     ELSE response
    /\ apiIdx' = apiIdx + 1
    /\ UNCHANGED apiArgs
    /\ UNCHANGED <<pollVars, probe>>

\* key=lambda x: x["published_ts"] or 0
SortKey(item) == IF Truthy(item.published_ts) THEN item.published_ts[1] ELSE 0

\* list.sort(key=..., reverse=True) is stable: items of equal key keep their
\* order.
RECURSIVE InsertDesc(_, _)
InsertDesc(x, s) ==
    IF s = <<>> THEN <<x>>
    ELSE IF SortKey(Head(s)) <= SortKey(x) THEN <<x>> \o s
    ELSE <<Head(s)>> \o InsertDesc(x, Tail(s))

\* list.sort(key=...) without reverse=True.
RECURSIVE InsertAsc(_, _)
InsertAsc(x, s) ==
    IF s = <<>> THEN <<x>>
    ELSE IF SortKey(Head(s)) > SortKey(x) THEN <<x>> \o s
    ELSE <<Head(s)>> \o InsertAsc(x, Tail(s))

RECURSIVE SortedAsc(_)
SortedAsc(s) == IF s = <<>> THEN <<>> ELSE InsertAsc(Head(s), SortedAsc(Tail(s)))

\* items.sort(key=lambda x: x["published_ts"] or 0, reverse=True)
RECURSIVE SortedDesc(_)
SortedDesc(s) == IF s = <<>> THEN <<>> ELSE InsertDesc(Head(s), SortedDesc(Tail(s)))

\* {k: v for (k, v) in it.items() if k != "published_ts"}
Serialised(it) ==
    [title |-> it.title, link |-> it.link, source |-> it.source,
     summary |-> it.summary, published |-> it.published]

\* api_news, lines 221-237: sort, cut to 150, respond.
ApiRespond ==
    /\ apiPc = "loop"
    /\ apiIdx > Len(FEEDS_index)
    /\ items' = SortedDesc(items)
    /\ response' = [status |-> 200, error |-> "",
                    count |-> Len(items),
                    items |-> [i \in 1..Min(Len(items), ResponseLimit) |->
                                 Serialised(SortedDesc(items)[i])],
                    generated_at |-> fmt_ts_ist(<<clock>>)]
    /\ apiPc' = "done"
    /\ UNCHANGED <<apiArgs, apiIdx, seen, apiArrivals, dups>>
    /\ UNCHANGED <<pollVars, probe>>

(***************************************************************************)
(* Specifications.                                                         *)
(***************************************************************************)
\* Both programs just started: the database is empty, the poller thread is
\* about to call fetch_once, no request has arrived.
Init ==
    /\ store = {}
    /\ txn = {}
    /\ pc = "fetch"
    /\ idx = 1
    /\ now = 0
    /\ inserted_total = 0
    /\ per_source = <<>>
    /\ STATUS = [last_run |-> <<>>, per_source |-> <<>>, last_error |-> NoError]
    /\ clock = StartClock
    /\ cycles = 0
    /\ arrivals = 0
    /\ faults = 0
    /\ raisedInCycle = FALSE
    /\ lastCycle = "none"
    /\ errBefore = NoError
    /\ ignored = {}
    /\ view = NoView
    /\ apiPc = "idle"
    /\ apiArgs = [q |-> <<>>, src |-> <<>>]
    /\ apiIdx = 1
    /\ items = <<>>
    /\ seen = {}
    /\ apiArrivals = 0
    /\ dups = <<>>
    /\ response = [status |-> 0, error |-> "", count |-> 0, items |-> <<>>,
                   generated_at |-> <<>>]
    /\ probe = [stage |-> "off"]

Poller == BeginCycle \/ FetchSource \/ FinishCycle \/ CommitFails \/ Sleep

NextPoll ==
    \/ BeginCycle
    \/ FetchSource
    \/ FinishCycle
    \/ CommitFails
    \/ Sleep
    \/ ReadHome
    \/ ReadApi

\* The polling variant: the poller thread and the read requests.
SpecPoll == Init /\ [][NextPoll]_vars

NextApi ==
    \/ ApiStart
    \/ ApiSource
    \/ ApiRespond

\* The stateless variant: one /api/news request.
SpecApi == Init /\ [][NextApi]_vars

\* The polling variant under a fair scheduler: the poller thread, once it
\* can take a step, is not starved for ever.
FairPoll == SpecPoll /\ WF_vars(Poller)

(***************************************************************************)
(* C1.  Polling variant: the items table never holds two rows with the     *)
(* same (title, source), in the committed rows and in the poller's open    *)
(* transaction alike: a second entry with the (title, source) of an        *)
(* earlier one, in the same cycle or a later one, adds no row.             *)
(***************************************************************************)
UniqueTitleSource(table) ==
    \A r1, r2 \in table :
        (r1.title = r2.title /\ r1.source = r2.source) => r1 = r2

\* C1: no two rows of the table share (title, source).
C1_OneRowPerTitleSource ==
    /\ UniqueTitleSource(store)
    /\ UniqueTitleSource(txn)

\* A duplicate arrived in a later cycle than the row it repeats, and one
\* arrived in the same cycle.
C1_Witness ==
    /\ pc = "sleep"
    /\ lastCycle = "completed"
    /\ \E d \in ignored : \E r \in store :
         /\ r.title = d.title /\ r.source = d.source
         /\ r.fetched_ts < d.fetched_ts

C1_WitnessSameCycle ==
    /\ pc = "sleep"
    /\ lastCycle = "completed"
    /\ \E d \in ignored : \E r \in store :
         /\ r.title = d.title /\ r.source = d.source
         /\ r.fetched_ts = d.fetched_ts

(***************************************************************************)
(* C3.  Polling variant: a committed row stays in the table for ever with  *)
(* every field unchanged, and so does a row of the open transaction while  *)
(* fetch_once goes on inserting; a later arrival with the same (title,     *)
(* source) and other field values changes nothing.                         *)
(***************************************************************************)
\* C3: no step removes or alters a row.
C3_RowsNeverChange ==
    [][ /\ \A r \in store : r \in store'
        /\ (pc = "loop" => \A r \in txn : r \in txn') ]_vars

\* A duplicate with another link, summary and published_ts was dropped and
\* the row first stored is still there.
C3_Witness ==
    \E d \in ignored : \E r \in store :
        /\ r.title = d.title /\ r.source = d.source
        /\ r.published_ts # d.published_ts
        /\ r.link # d.link
        /\ r.fetched_ts < d.fetched_ts

(***************************************************************************)
(* C8.  Polling variant: at the end of every completed poll cycle the      *)
(* three fields of STATUS hold that cycle's values: last_run is the        *)
(* cycle's time, per_source the cycle's outcomes, and last_error holds no  *)
(* message of an earlier cycle once a cycle has run in which no source     *)
(* raised and at least one row was inserted.                               *)
(***************************************************************************)
CycleCompleted == pc = "sleep" /\ lastCycle = "completed"

\* C8: a completed cycle leaves its own values in all of STATUS.
C8_StatusIsOfThisCycle ==
    CycleCompleted =>
        /\ STATUS.last_run = fmt_ts(<<now>>)
        /\ STATUS.per_source = per_source
        /\ (~raisedInCycle /\ inserted_total > 0 => STATUS.last_error = NoError)

(***************************************************************************)
(* C9.  Polling variant: every completed poll cycle that inserted no row   *)
(* and in which no source raised ends with STATUS.last_error set to the    *)
(* "No new items inserted" message, whatever earlier cycles left there.    *)
(***************************************************************************)
\* C9: a completed cycle without inserts and without a raising source ends
\* with the "No new items inserted" message in STATUS.last_error.
C9_QuietCycleIsFlagged ==
    (CycleCompleted /\ inserted_total = 0 /\ ~raisedInCycle)
        => STATUS.last_error = NoNewItems

(***************************************************************************)
(* C10.  Polling variant: a read request that runs while a poll cycle is   *)
(* in progress never returns a row of that cycle: the cycle's inserts      *)
(* stay inside fetch_once's transaction until con.commit(), after the last *)
(* source, so a reader sees all of a cycle's rows or none of them.         *)
(***************************************************************************)
CycleInProgress == pc \in {"loop", "commit"}

\* Rows the running cycle inserted: they carry its now as fetched_ts.
OfRunningCycle(row) == row.fetched_ts = now

\* C10 (amended): a read in mid-cycle returns no row of the running cycle.
C10_ReadsSeeNoPartialCycle ==
    (view.surface # "none" /\ CycleInProgress)
        => \A i \in 1..Len(view.rows) : ~OfRunningCycle(view.rows[i])

\* C10 as claimed: with rows of an earlier source of the running cycle
\* inserted and later sources still to come, the reader of /api/news sees
\* those rows.
C10_MidCycleReadSeesInserted ==
    ( /\ view.surface = "api"
      /\ pc = "loop"
      /\ idx <= Len(FEEDS_app)
      /\ \E r \in txn : OfRunningCycle(r) )
        => \E i \in 1..Len(view.rows) : OfRunningCycle(view.rows[i])

\* /api/news answered between two sources of a cycle that had already
\* inserted a row, with rows of an earlier cycle and none of this one.
C10_Witness ==
    /\ view.surface = "api"
    /\ pc = "loop"
    /\ idx \in 2..Len(FEEDS_app)
    /\ \E r \in txn : OfRunningCycle(r)
    /\ Len(view.rows) > 0
    /\ \A i \in 1..Len(view.rows) : ~OfRunningCycle(view.rows[i])

(***************************************************************************)
(* C7.  Polling variant, fair scheduler: the poller starts its first cycle *)
(* at once and after every cycle starts the next, also after a cycle that  *)
(* an exception left: the handler records it in STATUS.last_error and the  *)
(* loop goes on.  (Within the model's bound on the number of cycles.)      *)
(***************************************************************************)
\* C7: once cycle c has started, cycle c + 1 starts.
C7_PollerKeepsCycling ==
    \A c \in 0..(MaxCycles - 1) : (cycles = c) ~> (cycles = c + 1)

\* A cycle started after one that an exception left, with the handler's
\* message in STATUS.
C7_Witness ==
    /\ lastCycle = "escaped"
    /\ pc = "loop"
    /\ cycles = 2
    /\ STATUS.last_error = <<"poller", "OperationalError">>

(***************************************************************************)
(* C2.  In any aggregation run a source that fails, in its fetch or in     *)
(* the processing of its entries, never aborts the run: no error reaches   *)
(* the caller of /api/news, and a completed poll cycle has visited every   *)
(* configured source and shows an error outcome for a source that raised.  *)
(***************************************************************************)
FeedNames(feeds) == {feeds[i] : i \in 1..Len(feeds)}

\* C2, polling half: a completed cycle has an outcome for every source.
C2_PollCycleVisitsEverySource ==
    CycleCompleted =>
        /\ DOMAIN STATUS.per_source = FeedNames(FEEDS_app)
        /\ (raisedInCycle =>
              \E s \in FeedNames(FEEDS_app) : STATUS.per_source[s].kind = "error")

\* C2: no failure of a source ends the run with an error.
C2_NoSourceAbortsTheRun ==
    /\ apiPc # "failed"
    /\ response.status # 500
    /\ C2_PollCycleVisitsEverySource

(***************************************************************************)
(* C6.  Stateless variant: one /api/news run never returns two items with  *)
(* the same dedup key, which is (link, source) for an entry with a link    *)
(* and (title, source) for one without; entries of one source with the     *)
(* same title and the same link (or no link) yield at most one item.       *)
(***************************************************************************)
ItemKey(it) == <<IF it.link # <<>> THEN it.link ELSE it.title, it.source>>

\* C6 (amended): no two items of a run share (link or title, source).
C6_OneItemPerDedupKey ==
    \A i, j \in 1..Len(items) :
        ItemKey(items[i]) = ItemKey(items[j]) => i = j

\* C6 as claimed: no two items of a run share (title, source).
C6_OneItemPerTitleSource ==
    \A i, j \in 1..Len(items) :
        (items[i].title = items[j].title /\ items[i].source = items[j].source)
            => i = j

\* A response went out after an entry was skipped whose title, link and
\* source an item of the response has.
C6_Witness ==
    /\ apiPc = "done"
    /\ response.status = 200
    /\ \E d \in 1..Len(dups) : \E i \in 1..Len(items) :
         /\ dups[d].title = items[i].title
         /\ dups[d].link = items[i].link
         /\ dups[d].source = items[i].source

(***************************************************************************)
(* The ingest decision of both variants on one entry of one source.        *)
(***************************************************************************)
Probe ==
    /\ probe.stage = "off"
    /\ \E source \in FeedNames(FEEDS_index),
          title \in SampleTitles, summary \in SampleSummaries :
         LET e == Entry(title, u1, summary, <<>>, NoTime, NoTime)
             configured == source \in FeedNames(FEEDS_app)
         IN  probe' = [stage |-> "done",
                       source |-> source,
                       entry |-> e,
                       inApp |-> configured,
                       app |-> configured /\ Accepts_app(source, e),
                       index |-> Accepts_index(source, e)]
    /\ UNCHANGED <<pollVars, apiVars>>

SpecProbe == Init /\ [][Probe]_vars

(***************************************************************************)
(* C4.  Without a user query, an entry with a non-empty title is ingested  *)
(* exactly when the reference rule accepts it: its source is of the        *)
(* trusted exchange class, or the lower-cased haystack of title and        *)
(* summary holds an inclusion keyword and no exclusion keyword.            *)
(***************************************************************************)
TrustedClass(source) == startswith(Spelling(source), NSE_PREFIX)

HasAny(text, keywords) == \E k \in 1..Len(keywords) : Contains(text, keywords[k])

ReferenceRule(source, title, summary, include, exclude) ==
    \/ TrustedClass(source)
    \/ LET hay == lower(Haystack(title, summary))
       IN  HasAny(hay, include) /\ ~HasAny(hay, exclude)

\* C4, stateless half: api_news decides as the reference rule does.
C4_IndexDecisionIsReference ==
    (probe.stage = "done" /\ Title_index(probe.entry) # <<>>) =>
        probe.index = ReferenceRule(probe.source, Title_index(probe.entry),
                                    Summary_index(probe.entry),
                                    INCLUDE_KEYWORDS_index, EXCLUDE_KEYWORDS_index)

\* C4, polling half: fetch_once decides as the reference rule does.
C4_AppDecisionIsReference ==
    (probe.stage = "done" /\ probe.inApp /\ strip(probe.entry.title) # <<>>) =>
        probe.app = ReferenceRule(probe.source, strip(probe.entry.title),
                                  clean_text_app(probe.entry.summary),
                                  INCLUDE_KEYWORDS_app, EXCLUDE_KEYWORDS_app)

\* C4: both variants decide as the reference rule does.
C4_IngestDecisionIsReference ==
    C4_IndexDecisionIsReference /\ C4_AppDecisionIsReference

(***************************************************************************)
(* The read surfaces on their own: the page and /api/news of the polling   *)
(* variant over a table that two poll cycles filled, and the sort and      *)
(* response of the stateless /api/news over the items one source gave.     *)
(***************************************************************************)
\* Longest feed document the tables and item lists below are built from.
MaxSample == 2

ReadPool ==
    { Entry(tDividend, u1, sNone, <<>>, At(90), NoTime),
      Entry(tPlain, u1, <<>>, sDividend, NoTime, NoTime),
      Entry(tMarkup, u2, sNone, <<>>, NoTime, At(130)) }

\* The tables fetch_once leaves after two cycles that each got one document
\* from the official source.
SampleStores ==
    { IngestEntries(NSE_OFFICIAL, f2,
                    IngestEntries(NSE_OFFICIAL, f1, {}, 0, StartClock, {}).table,
                    0, StartClock + POLL_SECONDS, {}).table :
        f1 \in SeqsUpTo(ReadPool, MaxSample), f2 \in SeqsUpTo(ReadPool, MaxSample) }

ApiReadPool ==
    { Entry(tDividend, u1, sNone, <<>>, At(90), NoTime),
      Entry(tPlain, <<>>, <<>>, sDividend, NoTime, NoTime),
      Entry(tMarkup, u2, sNone, <<>>, NoTime, At(-5)),
      Entry(tRights, <<>>, sIssue, <<>>, At(130), NoTime) }

\* The items api_news has collected when a document of one source is all
\* it got.
SampleItems ==
    { CollectEntries("NSE Announcements", f, <<>>, <<>>, {}, <<>>).items :
        f \in SeqsUpTo(ApiReadPool, MaxSample) }

InitRead ==
    /\ store \in SampleStores
    /\ txn = {}
    /\ pc = "sleep"
    /\ idx = Len(FEEDS_app) + 1
    /\ now = StartClock + POLL_SECONDS
    /\ inserted_total = 0
    /\ per_source = <<>>
    /\ STATUS = [last_run |-> <<>>, per_source |-> <<>>, last_error |-> NoError]
    /\ clock = StartClock + POLL_SECONDS
    /\ cycles = 2
    /\ arrivals = 0
    /\ faults = 0
    /\ raisedInCycle = FALSE
    /\ lastCycle = "completed"
    /\ errBefore = NoError
    /\ ignored = {}
    /\ view = NoView
    /\ apiPc = "loop"
    /\ apiArgs = [q |-> <<>>, src |-> <<>>]
    /\ apiIdx = Len(FEEDS_index) + 1
    /\ items \in SampleItems
    /\ seen = {}
    /\ apiArrivals = 0
    /\ dups = <<>>
    /\ response = [status |-> 0, error |-> "", count |-> 0, items |-> <<>>,
                   generated_at |-> <<>>]
    /\ probe = [stage |-> "off"]

NextRead ==
    \/ ReadHome
    \/ ReadApi
    \/ ApiRespond

SpecRead == InitRead /\ [][NextRead]_vars

(***************************************************************************)
(* C5.  Every read surface returns its items in descending order of the    *)
(* surface's sort key.  The polling variant's page and /api/news sort by   *)
(* COALESCE(published_ts, fetched_ts), so a row without a published        *)
(* timestamp stands where its fetched_ts puts it; the stateless /api/news  *)
(* sorts by published_ts with 0 for a missing one, so an item without a    *)
(* published timestamp comes after every item whose published timestamp    *)
(* is positive.                                                            *)
(***************************************************************************)
HasPublished(x) == x.published_ts # <<>>

RowsDescending(rows) ==
    \A i, j \in 1..Len(rows) : i < j => Coalesce(rows[i]) >= Coalesce(rows[j])

ItemsDescending(its) ==
    \A i, j \in 1..Len(its) : i < j => SortKey(its[i]) >= SortKey(its[j])

\* No element without a published timestamp before one that has one.
MissingLast(s) ==
    \A i, j \in 1..Len(s) : i < j => ~(~HasPublished(s[i]) /\ HasPublished(s[j]))

====
